---- MODULE Spec2Model ----
(***************************************************************************)
(* Sentiment-based product recommendation engine (model.py).               *)
(*                                                                         *)
(* The three artifact tables are the module-level state; every request is  *)
(* one call of get_top20_products or get_final_recommendations.            *)
(*                                                                         *)
(* Numbers.  Ratings, similarities and statistics are small integers.      *)
(* A float that may be missing (NaN / None) is the value NaN.  A           *)
(* recommendation score and a blend are exact rationals <<num, den>> with  *)
(* den > 0, compared by cross-multiplication, so that the epsilon added to *)
(* the denominator at model.py:81 keeps its effect on ties.                *)
(*                                                                         *)
(* pandas.  DataFrame.sort_values is taken as order preserving among equal *)
(* keys (numpy sorts short arrays by insertion), with missing values last; *)
(* sort_values(by = []) returns the frame as it is; .loc with a list that  *)
(* holds a missing label raises KeyError.                                  *)
(***************************************************************************)
EXTENDS Integers, Sequences, FiniteSets, TLC

VARIABLES item_sim_df, product_stats, user_item, call, cand_df, out, seen

vars == <<item_sim_df, product_stats, user_item, call, cand_df, out, seen>>

artifacts == <<item_sim_df, product_stats, user_item>>

(***************************************************************************)
(* Bounds of the model.                                                    *)
(***************************************************************************)
\* largest top_k, top_k_candidates and final_k of a request
MaxK == 2

\* np.nan / None
NaN == -999
\* The epsilon of the score's denominator (1e-9 at line 81) is 1 / EpsDen of a
\* similarity unit.  For the integer similarities and ratings of the snapshots
\* every comparison of two scores or two blends has the sign it has for any
\* smaller positive epsilon: it is decided by an integer term of size >= 1
\* against epsilon terms whose coefficients stay below 100.
EpsDen == 1000

Products == {1, 2, 3}
ProductSeq == <<1, 2, 3>>
SimVals == {-1, 0, 1}
RatingVals == {0, 1, 2}

Min(a, b) == IF a < b THEN a ELSE b

Range(s) == {s[i] : i \in 1..Len(s)}

\* DataFrame.head
HeadRows(s, k) == SubSeq(s, 1, Min(k, Len(s)))

IsNa(v) == v = NaN

(***************************************************************************)
(* Exact rationals for scores and blends.                                  *)
(***************************************************************************)
Rat(n, d) == IF d < 0 THEN <<-n, -d>> ELSE <<n, d>>

RatLt(a, b) == a[1] * b[2] < b[1] * a[2]

RatEq(a, b) == a[1] * b[2] = b[1] * a[2]

Zero == <<0, 1>>

(***************************************************************************)
(* The artifact tables.                                                    *)
(***************************************************************************)
StatCols == {"product_name", "avg_rating", "n_ratings", "pct_pos", "mean_pos_prob"}

ProductName(id) == 100 + id

StatsRow(id, avg, n, pct, mpp) ==
    [id |-> id, product_name |-> ProductName(id), avg_rating |-> avg,
     n_ratings |-> n, pct_pos |-> pct, mean_pos_prob |-> mpp]

\* the index of the statistics table (lines 19-20: keyed by id)
StatsIndex == {product_stats.rows[i].id : i \in 1..Len(product_stats.rows)}

StatsLoc(pid) ==
    product_stats.rows[CHOOSE i \in 1..Len(product_stats.rows) : product_stats.rows[i].id = pid]

\* _product_stats.reindex(ids)[c]: the value, missing for an unknown id
StatsValue(pid, c) ==
    IF pid \in StatsIndex /\ c \in product_stats.columns THEN StatsLoc(pid)[c] ELSE NaN

NoMatrix == [loaded |-> FALSE, rows |-> <<>>]

KnownUser(username) == user_item.loaded /\ username \in DOMAIN user_item.rows

(***************************************************************************)
(* DataFrame.sort_values(by, ascending=False): descending, lexicographic   *)
(* over the columns of by, a missing value after every number, equal keys  *)
(* in their original order.                                                *)
(***************************************************************************)
Gt(x, y) == ~IsNa(x) /\ (IsNa(y) \/ x > y)

LexBefore(a, b, by) ==
    \E k \in 1..Len(by) :
        /\ \A j \in 1..(k - 1) : a[by[j]] = b[by[j]]
        /\ Gt(a[by[k]], b[by[k]])

RECURSIVE InsertRow(_, _, _)
InsertRow(x, s, by) ==
    IF s = <<>> THEN <<x>>
    ELSE IF LexBefore(x, Head(s), by) THEN <<x>> \o s
    ELSE <<Head(s)>> \o InsertRow(x, Tail(s), by)

RECURSIVE SortValues(_, _)
SortValues(rows, by) ==
    IF rows = <<>> THEN <<>>
    ELSE InsertRow(rows[Len(rows)], SortValues(SubSeq(rows, 1, Len(rows) - 1), by), by)

(***************************************************************************)
(* _popularity_fallback                                                    *)
(***************************************************************************)
ErrorFrame(e) == [error |-> e, columns |-> {}, rows |-> <<>>]

\* cols: the metadata columns the statistics table has
FallbackCols == StatCols \cap product_stats.columns

SortColsReversed ==
    SelectSeq(<<"n_ratings", "avg_rating", "mean_pos_prob", "pct_pos">>,
              LAMBDA c : c \in product_stats.columns)

\* sort_cols: the sort keys the statistics table has, in the order of the list
SortCols ==
    SelectSeq(<<"pct_pos", "mean_pos_prob", "avg_rating", "n_ratings">>,
              LAMBDA c : c \in product_stats.columns)

\* one row of the fallback's frame: the metadata present, recomm_score = 0.0
FallbackRow(r) ==
    [id |-> r.id,
     product_name |-> IF "product_name" \in FallbackCols THEN r.product_name ELSE NaN,
     avg_rating |-> IF "avg_rating" \in FallbackCols THEN r.avg_rating ELSE NaN,
     n_ratings |-> IF "n_ratings" \in FallbackCols THEN r.n_ratings ELSE NaN,
     pct_pos |-> IF "pct_pos" \in FallbackCols THEN r.pct_pos ELSE NaN,
     mean_pos_prob |-> IF "mean_pos_prob" \in FallbackCols THEN r.mean_pos_prob ELSE NaN,
     recomm_score |-> Zero]

popularity_fallback(top_k) ==
    LET df == HeadRows(SortValues(product_stats.rows, SortCols), top_k)
    IN  [error |-> "none",
         columns |-> {"id", "recomm_score"} \cup FallbackCols,
         rows |-> [i \in 1..Len(df) |-> FallbackRow(df[i])]]

\* the statistics table after a fallback that sorts and cuts it in place
StatsAfterFallbackInPlace(top_k) ==
    [product_stats EXCEPT !.rows = HeadRows(SortValues(product_stats.rows, SortCols), top_k)]

\* the statistics table after the fallback: line 41 works on a copy
StatsAfterFallback(top_k) == product_stats

(***************************************************************************)
(* get_top20_products                                                      *)
(***************************************************************************)
\* s[s > 0].index.tolist(): the products rated above zero, in column order
RatedItemsAboveOne(user_ratings) ==
    SelectSeq(ProductSeq, LAMBDA p : user_ratings[p] > 1)

RatedItems(user_ratings) ==
    SelectSeq(ProductSeq, LAMBDA p : user_ratings[p] > 0)

RECURSIVE SeqSum(_)
SeqSum(s) == IF s = <<>> THEN 0 ELSE Head(s) + SeqSum(Tail(s))

\* sims = _item_sim_df.loc[item, rated_items] (line 74)
Sims(item, rated_items) ==
    [i \in 1..Len(rated_items) |-> item_sim_df.sim[<<item, rated_items[i]>>]]

\* np.dot(sims.values, ratings.values) (line 80)
Dot(sims, rated_items, user_ratings) ==
    SeqSum([i \in 1..Len(sims) |-> sims[i] * user_ratings[rated_items[i]]])

ScoreUnguarded(item, rated_items, user_ratings) ==
    LET sims == Sims(item, rated_items)
    IN  IF rated_items = <<>> THEN Zero
        ELSE Rat(Dot(sims, rated_items, user_ratings) * EpsDen, SeqSum(sims) * EpsDen + 1)

\* the score of one unrated column (lines 70-81)
Score(item, rated_items, user_ratings) ==
    LET sims == Sims(item, rated_items)
    IN  IF rated_items = <<>> THEN Zero
        ELSE IF SeqSum(sims) = 0 THEN Zero
        ELSE Rat(Dot(sims, rated_items, user_ratings) * EpsDen, SeqSum(sims) * EpsDen + 1)

\* the items the loop scores: the columns of the similarity table not rated
Unrated(rated_items) ==
    SelectSeq(item_sim_df.labels, LAMBDA p : p \notin Range(rated_items))

\* _item_sim_df.loc[item, rated_items] raises KeyError for a label it lacks
LocRaises(rated_items) ==
    /\ rated_items # <<>>
    /\ Unrated(rated_items) # <<>>
    /\ ~(Range(rated_items) \subseteq Range(item_sim_df.labels))

\* scores.items(): <<item, score>> in the order of insertion
Scores(rated_items, user_ratings) ==
    LET items == Unrated(rated_items)
    IN  [i \in 1..Len(items) |-> <<items[i], Score(items[i], rated_items, user_ratings)>>]

RECURSIVE InsertScore(_, _)
InsertScore(x, s) ==
    IF s = <<>> THEN <<x>>
    ELSE IF RatLt(Head(s)[2], x[2]) THEN <<x>> \o s
    ELSE <<Head(s)>> \o InsertScore(x, Tail(s))

\* sorted(items, key = score, reverse = True): descending, equal scores in
\* their original order
RECURSIVE SortScores(_)
SortScores(scores) ==
    IF scores = <<>> THEN <<>>
    ELSE InsertScore(scores[Len(scores)], SortScores(SubSeq(scores, 1, Len(scores) - 1)))

Reverse(s) == [i \in 1..Len(s) |-> s[Len(s) + 1 - i]]

RankedTiesReversed(scores, top_k) == HeadRows(SortScores(Reverse(scores)), top_k)

\* ranked (lines 83-85)
Ranked(scores, top_k) == HeadRows(SortScores(scores), top_k)

\* int(meta.get("n_ratings", 0)) raises ValueError for a missing count
IntRaises(pid) ==
    /\ pid \in StatsIndex
    /\ "n_ratings" \in product_stats.columns
    /\ IsNa(StatsLoc(pid).n_ratings)

\* one row of the candidate frame (lines 89-98)
MetaRow(pid, score) ==
    [id |-> pid,
     product_name |-> StatsValue(pid, "product_name"),
     avg_rating |-> StatsValue(pid, "avg_rating"),
     n_ratings |-> IF pid \in StatsIndex /\ "n_ratings" \in product_stats.columns
                   THEN StatsValue(pid, "n_ratings") ELSE 0,
     pct_pos |-> NaN,
     mean_pos_prob |-> NaN,
     recomm_score |-> score]

ItemColumns == {"id", "product_name", "avg_rating", "n_ratings", "recomm_score"}

ItemBasedSkipsUnknown(username, top_k) ==
    LET user_ratings == user_item.rows[username]
        rated_items == RatedItems(user_ratings)
        ranked == SelectSeq(Ranked(Scores(rated_items, user_ratings), top_k),
                            LAMBDA x : x[1] \in StatsIndex)
    IN  IF LocRaises(rated_items) THEN ErrorFrame("KeyError")
        ELSE IF \E i \in 1..Len(ranked) : IntRaises(ranked[i][1]) THEN ErrorFrame("ValueError")
        ELSE [error |-> "none",
              columns |-> IF ranked = <<>> THEN {} ELSE ItemColumns,
              rows |-> [i \in 1..Len(ranked) |-> MetaRow(ranked[i][1], ranked[i][2])]]

\* the item-based path (lines 63-100)
ItemBased(username, top_k) ==
    LET user_ratings == user_item.rows[username]
        rated_items == RatedItems(user_ratings)
        ranked == Ranked(Scores(rated_items, user_ratings), top_k)
    IN  IF LocRaises(rated_items) THEN ErrorFrame("KeyError")
        ELSE IF \E i \in 1..Len(ranked) : IntRaises(ranked[i][1]) THEN ErrorFrame("ValueError")
        ELSE [error |-> "none",
              columns |-> IF ranked = <<>> THEN {} ELSE ItemColumns,
              rows |-> [i \in 1..Len(ranked) |-> MetaRow(ranked[i][1], ranked[i][2])]]

get_top20_products(username, top_k) ==
    IF ~KnownUser(username) THEN popularity_fallback(top_k)
    ELSE ItemBased(username, top_k)

(***************************************************************************)
(* get_final_recommendations                                               *)
(***************************************************************************)
SentimentCols == {"pct_pos", "mean_pos_prob"}

\* sent_cols (line 120)
SentCols == SentimentCols \cap product_stats.columns

\* overlap (line 124): the sentiment columns the candidate frame already has
Overlap(cand) == SentCols \cap cand.columns

\* the columns of prod_sent that are joined (lines 125-128)
JoinedCols(cand) == SentCols \ Overlap(cand)

\* merged[c] of one candidate after the join and the fill (lines 128-135)
Sentiment(r, c, cand) ==
    LET v == IF c \in cand.columns THEN r[c]
             ELSE IF c \in JoinedCols(cand) THEN StatsValue(r.id, c)
             ELSE 0
    IN  IF IsNa(v) THEN 0 ELSE v

BlendEqualWeights(recomm_score, pct_pos, mean_pos_prob) ==
    Rat(3 * recomm_score[1] + (3 * pct_pos + 3 * mean_pos_prob) * recomm_score[2],
        10 * recomm_score[2])

\* blend = 0.6 * recomm_score + 0.3 * pct_pos + 0.1 * mean_pos_prob (line 146)
Blend(recomm_score, pct_pos, mean_pos_prob) ==
    Rat(6 * recomm_score[1] + (3 * pct_pos + mean_pos_prob) * recomm_score[2],
        10 * recomm_score[2])

MergedRow(r, cand) ==
    LET pct == Sentiment(r, "pct_pos", cand)
        mpp == Sentiment(r, "mean_pos_prob", cand)
    IN  [id |-> r.id, product_name |-> r.product_name, avg_rating |-> r.avg_rating,
         n_ratings |-> r.n_ratings, pct_pos |-> pct, mean_pos_prob |-> mpp,
         recomm_score |-> r.recomm_score,
         blend |-> Blend(r.recomm_score, pct, mpp)]

\* a sorts before b under sort_values(by = sort_cols, ascending = False)
BlendBefore(a, b, by_avg) ==
    \/ RatLt(b.blend, a.blend)
    \/ (RatEq(a.blend, b.blend) /\ by_avg /\ Gt(a.avg_rating, b.avg_rating))

RECURSIVE InsertMerged(_, _, _)
InsertMerged(x, s, by_avg) ==
    IF s = <<>> THEN <<x>>
    ELSE IF BlendBefore(x, Head(s), by_avg) THEN <<x>> \o s
    ELSE <<Head(s)>> \o InsertMerged(x, Tail(s), by_avg)

\* merged.sort_values(by = sort_cols, ascending = False) (line 153)
RECURSIVE SortMerged(_, _)
SortMerged(rows, by_avg) ==
    IF rows = <<>> THEN <<>>
    ELSE InsertMerged(rows[Len(rows)],
                      SortMerged(SubSeq(rows, 1, Len(rows) - 1), by_avg), by_avg)

SortByAvgNever(cand) == FALSE

\* sort_cols holds avg_rating when the frame has the column (lines 149-151)
SortByAvg(cand) == "avg_rating" \in cand.columns

\* the guard of the safety filter (line 158)
FilterApplies(username) == user_item.loaded /\ username \in DOMAIN user_item.rows

\* the safety filter (lines 157-162); a frame without an id column makes
\* merged['id'] raise, which the except clause swallows
Filtered(rows, cand, username) ==
    IF FilterApplies(username) /\ "id" \in cand.columns
    THEN LET already == Range(RatedItems(user_item.rows[username]))
         IN  SelectSeq(rows, LAMBDA r : r.id \notin already)
    ELSE rows

\* one record of the output (lines 167-175)
OutRecord(r, cand) ==
    [id |-> r.id,
     product_name |-> IF "product_name" \in cand.columns THEN r.product_name ELSE NaN,
     avg_rating |-> IF "avg_rating" \in cand.columns THEN r.avg_rating ELSE NaN,
     n_ratings |-> IF "n_ratings" \in cand.columns /\ ~IsNa(r.n_ratings)
                   THEN r.n_ratings ELSE 0,
     pct_pos |-> r.pct_pos,
     mean_pos_prob |-> r.mean_pos_prob,
     blend |-> r.blend]

HeadOneMore(rows, final_k) == HeadRows(rows, final_k + 1)

\* merged.head(final_k) (line 166)
HeadFinal(rows, final_k) == HeadRows(rows, final_k)

\* the output for a candidate frame (lines 116-176)
Rerank(cand, username, final_k) ==
    LET merged == [i \in 1..Len(cand.rows) |-> MergedRow(cand.rows[i], cand)]
        sorted == SortMerged(merged, SortByAvg(cand))
        kept == HeadFinal(Filtered(sorted, cand, username), final_k)
    IN  [i \in 1..Len(kept) |-> OutRecord(kept[i], cand)]

\* the outcome for a candidate frame: a fault of the generator propagates
FinalFrom(cand, username, final_k) ==
    IF cand.error # "none" THEN [error |-> cand.error, records |-> <<>>]
    ELSE [error |-> "none", records |-> Rerank(cand, username, final_k)]

get_final_recommendations(username, top_k_candidates, final_k) ==
    FinalFrom(get_top20_products(username, top_k_candidates), username, final_k)

(***************************************************************************)
(* The loaded artifact snapshots (lines 16-27).                            *)
(***************************************************************************)
\* a square similarity table over labels, symmetric, 1 on the diagonal
SimTablesOver(labels) ==
    LET L == Range(labels)
        pairs == {pq \in L \X L : pq[1] < pq[2]}
    IN  {[labels |-> labels,
          sim |-> [pq \in L \X L |->
                     IF pq[1] = pq[2] THEN 1
                     ELSE IF pq[1] < pq[2] THEN f[pq] ELSE f[<<pq[2], pq[1]>>]]] :
         f \in [pairs -> SimVals]}

OnesOver(labels) ==
    [labels |-> labels, sim |-> [pq \in Range(labels) \X Range(labels) |-> 1]]

SimTables == {OnesOver(<<>>), OnesOver(<<1, 2>>)} \cup SimTablesOver(ProductSeq)

\* similar, unrelated and opposed pairs of products
MixedSim ==
    [labels |-> ProductSeq,
     sim |-> [pq \in Products \X Products |->
                IF pq[1] = pq[2] \/ pq \in {<<1, 2>>, <<2, 1>>} THEN 1
                ELSE IF pq \in {<<1, 3>>, <<3, 1>>} THEN 0 ELSE -1]]

SimTablesFew == {OnesOver(<<1, 2>>), OnesOver(ProductSeq), MixedSim}

\* the user-item matrices with the one user "u1"
UserItems ==
    {[loaded |-> TRUE, rows |-> [u \in {"u1"} |-> r]] : r \in [Products -> RatingVals]}

\* the values of a statistics row: avg_rating, n_ratings, pct_pos, mean_pos_prob
RowValues ==
    {<<2, 1, 1, 1>>, <<1, 2, 1, 1>>, <<1, 1, 0, 1>>, <<NaN, NaN, NaN, NaN>>}

ColSets ==
    {StatCols, {},
     {"product_name", "n_ratings"},
     {"product_name", "avg_rating", "n_ratings"},
     {"product_name", "pct_pos"},
     {"avg_rating", "mean_pos_prob"}}

\* a row restricted to the columns the table has
ProjectRow(r, cols) ==
    [c \in DOMAIN r |-> IF c = "id" \/ c \in cols THEN r[c] ELSE NaN]

\* a statistics table: each product has a row or none, rows in id order
StatsTable(cols, choice) ==
    LET ids == SelectSeq(ProductSeq, LAMBDA p : choice[p] # <<>>)
    IN  [columns |-> cols,
         rows |-> [i \in 1..Len(ids) |->
                     ProjectRow(StatsRow(ids[i], choice[ids[i]][1], choice[ids[i]][2],
                                         choice[ids[i]][3], choice[ids[i]][4]), cols)]]

StatsTablesRich ==
    {StatsTable(cols, choice) :
        cols \in ColSets, choice \in [Products -> RowValues \cup {<<>>}]}

StatsFull ==
    StatsTable(StatCols, (1 :> <<1, 2, 1, 1>>) @@ (2 :> <<2, 1, 1, 1>>) @@ (3 :> <<1, 1, 0, 1>>))

\* product 2 has no row, product 1 a row of missing values
StatsSparse ==
    StatsTable(StatCols, (1 :> <<NaN, NaN, NaN, NaN>>) @@ (2 :> <<>>) @@ (3 :> <<2, 1, 1, 1>>))

StatsTablesSmall ==
    {StatsSparse,
     StatsTable(StatCols, (1 :> <<>>) @@ (2 :> <<2, 2, 1, 0>>) @@ (3 :> <<NaN, NaN, NaN, NaN>>)),
     StatsTable({"product_name", "pct_pos"},
                (1 :> <<1, 1, 0, 1>>) @@ (2 :> <<>>) @@ (3 :> <<2, 1, 1, 1>>))}

NoCall == [op |-> "none", username |-> "", top_k |-> 0, final_k |-> 0]
NoOut == [error |-> "none", records |-> <<>>]
NoFrame == [error |-> "none", columns |-> {}, rows |-> <<>>]
NoSeen == [valid |-> FALSE, call |-> NoCall, out |-> NoOut, between |-> FALSE]

\* snapshots that exercise the item-based path
InitItem ==
    /\ user_item \in UserItems
    /\ \/ item_sim_df \in SimTables /\ product_stats \in {StatsFull, StatsSparse}
       \/ item_sim_df \in SimTablesFew /\ product_stats \in StatsTablesSmall

\* snapshots that exercise the popularity fallback
InitPopular ==
    /\ item_sim_df = OnesOver(ProductSeq)
    /\ user_item = NoMatrix
    /\ product_stats \in StatsTablesRich

Init ==
    /\ (InitItem \/ InitPopular)
    /\ call = NoCall
    /\ cand_df = NoFrame
    /\ out = NoOut
    /\ seen = NoSeen

(***************************************************************************)
(* The requests.                                                           *)
(***************************************************************************)
\* the statistics table after get_top20_products
StatsAfterTop20(username, top_k) ==
    IF ~KnownUser(username) THEN StatsAfterFallback(top_k) ELSE product_stats

PopularityFallbackCall(top_k) ==
    /\ call' = [op |-> "fallback", username |-> "", top_k |-> top_k, final_k |-> 0]
    /\ cand_df' = popularity_fallback(top_k)
    /\ out' = NoOut
    /\ product_stats' = StatsAfterFallback(top_k)
    /\ UNCHANGED <<item_sim_df, user_item>>

Top20Call(username, top_k) ==
    /\ call' = [op |-> "top20", username |-> username, top_k |-> top_k, final_k |-> 0]
    /\ cand_df' = get_top20_products(username, top_k)
    /\ out' = NoOut
    /\ product_stats' = StatsAfterTop20(username, top_k)
    /\ UNCHANGED <<item_sim_df, user_item>>

FinalCall(username, top_k_candidates, final_k) ==
    /\ call' = [op |-> "final", username |-> username, top_k |-> top_k_candidates,
                final_k |-> final_k]
    /\ cand_df' = get_top20_products(username, top_k_candidates)
    /\ out' = FinalFrom(cand_df', username, final_k)
    /\ product_stats' = StatsAfterTop20(username, top_k_candidates)
    /\ UNCHANGED <<item_sim_df, user_item>>

Fallback == \E k \in 1..MaxK : PopularityFallbackCall(k)

\* the usernames of the requests: the known ones and the empty string
Usernames == {""} \cup DOMAIN user_item.rows

Top20 == \E u \in Usernames, k \in 1..MaxK : Top20Call(u, k)

Final == \E u \in Usernames, k \in 1..MaxK, f \in 1..MaxK : FinalCall(u, k, f)

ServeFallback == Fallback /\ UNCHANGED seen

ServeTop20 == Top20 /\ UNCHANGED seen

ServeFinal == Final /\ UNCHANGED seen

Next == ServeFallback \/ ServeTop20 \/ ServeFinal

Spec == Init /\ [][Next]_vars

(***************************************************************************)
(* Requests observed for repeatability: the first call of                  *)
(* get_final_recommendations is remembered with its outcome, and so is     *)
(* whether another request was served since.                               *)
(***************************************************************************)
UserItemsFew ==
    {NoMatrix} \cup
    {[loaded |-> TRUE, rows |-> [u \in {"u1"} |-> r]] :
        r \in {(1 :> 0) @@ (2 :> 0) @@ (3 :> 0), (1 :> 2) @@ (2 :> 0) @@ (3 :> 0),
               (1 :> 1) @@ (2 :> 2) @@ (3 :> 0), (1 :> 0) @@ (2 :> 0) @@ (3 :> 1)}}

InitObserved ==
    /\ item_sim_df \in SimTablesFew
    /\ user_item \in UserItemsFew
    /\ product_stats \in StatsTablesSmall \cup {StatsFull}
    /\ call = NoCall
    /\ cand_df = NoFrame
    /\ out = NoOut
    /\ seen = NoSeen

\* a request after the remembered call is noted
Later == [seen EXCEPT !.between = seen.valid]

ObservedFallback == Fallback /\ seen' = Later

ObservedTop20 == Top20 /\ seen' = Later

ObservedFinal ==
    /\ Final
    /\ seen' = IF seen.valid THEN Later
               ELSE [valid |-> TRUE, call |-> call', out |-> out', between |-> FALSE]

NextObserved == ObservedFallback \/ ObservedTop20 \/ ObservedFinal

SpecObserved == InitObserved /\ [][NextObserved]_vars

(***************************************************************************)
(* Vocabulary of the properties, stated from the tables themselves.        *)
(***************************************************************************)
IsFinal == call.op = "final"

IsTop20 == call.op \in {"top20", "final"}

\* the requesting user is a key of an existing user-item matrix
UserIsKnown == user_item.loaded /\ call.username \in DOMAIN user_item.rows

\* the products the requesting user rated strictly above zero
RatedSet == IF UserIsKnown
            THEN {p \in Products : user_item.rows[call.username][p] > 0}
            ELSE {}

StatsIds == {product_stats.rows[i].id : i \in 1..Len(product_stats.rows)}

CandIds == {cand_df.rows[i].id : i \in 1..Len(cand_df.rows)}

OutIds == {out.records[i].id : i \in 1..Len(out.records)}

(***************************************************************************)
(* C1.  Exclusion invariant: when the user-item matrix exists and the      *)
(* username is one of its keys, no record returned by                      *)
(* get_final_recommendations has an id the user rated above 0.             *)
(***************************************************************************)
C1_Exclusion ==
    (IsFinal /\ UserIsKnown) => OutIds \cap RatedSet = {}

C1_Witness ==
    /\ IsFinal /\ UserIsKnown
    /\ RatedSet # {}
    /\ Len(out.records) >= 2

(***************************************************************************)
(* C2.  get_top20_products never ends in an error outcome, whatever the    *)
(* username and the loaded snapshot (a rated product outside the           *)
(* similarity table, a candidate without a statistics row, a statistics    *)
(* row with a missing avg_rating or n_ratings).                            *)
(***************************************************************************)
C2_NeverRaises == IsTop20 => cand_df.error = "none"

(***************************************************************************)
(* C4.  _popularity_fallback returns at most top_k rows and at most as     *)
(* many rows as the statistics table has; the rows are in non-increasing   *)
(* lexicographic order of the present columns of [pct_pos, mean_pos_prob,  *)
(* avg_rating, n_ratings] (a missing value ranks after every number); and  *)
(* every row has recomm_score = 0.0.                                       *)
(***************************************************************************)
KeyList == <<"pct_pos", "mean_pos_prob", "avg_rating", "n_ratings">>

PresentKeys == SelectSeq(KeyList, LAMBDA c : c \in product_stats.columns)

\* a missing value is below every number
KeyRank(v) == IF v = NaN THEN -1 ELSE v

\* a is not after b: at the first key where they differ, a is larger
NotAfter(a, b) ==
    \A k \in 1..Len(PresentKeys) :
        (\A j \in 1..(k - 1) : KeyRank(a[PresentKeys[j]]) = KeyRank(b[PresentKeys[j]]))
            => KeyRank(a[PresentKeys[k]]) >= KeyRank(b[PresentKeys[k]])

IsFallbackFrame == call.op = "fallback" \/ (IsTop20 /\ ~UserIsKnown)

C4_PopularityOrder ==
    IsFallbackFrame =>
        /\ cand_df.error = "none"
        /\ Len(cand_df.rows) <= call.top_k
        /\ Len(cand_df.rows) <= Len(product_stats.rows)
        /\ \A i \in 1..(Len(cand_df.rows) - 1) : NotAfter(cand_df.rows[i], cand_df.rows[i + 1])
        /\ \A i \in 1..Len(cand_df.rows) : cand_df.rows[i].recomm_score = <<0, 1>>
        /\ CandIds \subseteq StatsIds

\* two rows tie on the first key and a later key decides their order
C4_Witness ==
    /\ call.op = "fallback"
    /\ Len(PresentKeys) >= 2
    /\ Len(cand_df.rows) >= 2
    /\ Len(cand_df.rows) < Len(product_stats.rows)
    /\ cand_df.rows[1][PresentKeys[1]] = cand_df.rows[2][PresentKeys[1]]
    /\ cand_df.rows[1][PresentKeys[2]] > cand_df.rows[2][PresentKeys[2]]
    /\ cand_df.rows[1].id > cand_df.rows[2].id

(***************************************************************************)
(* C5.  The list returned by get_final_recommendations has length          *)
(* min(final_k, number of candidates that survive the already-rated        *)
(* filter); with fewer than final_k survivors it holds exactly the         *)
(* survivors; no id occurs twice.                                          *)
(***************************************************************************)
Survivors == CandIds \ RatedSet

C5_Length ==
    (IsFinal /\ out.error = "none") =>
        /\ Len(out.records) = Min(call.final_k, Cardinality(Survivors))
        /\ Cardinality(OutIds) = Len(out.records)
        /\ OutIds \subseteq Survivors
        /\ Cardinality(Survivors) <= call.final_k => OutIds = Survivors

C5_Witness ==
    /\ IsFinal /\ out.error = "none"
    /\ Cardinality(Survivors) = 1
    /\ call.final_k = 2
    /\ Len(out.records) = 1

(***************************************************************************)
(* Scores and blends as the properties state them.                         *)
(***************************************************************************)
RECURSIVE SetSum(_, _)
SetSum(S, f) ==
    IF S = {} THEN 0
    ELSE LET x == CHOOSE y \in S : TRUE IN f[x] + SetSum(S \ {x}, f)

\* the sum of the product's similarities to the rated items
SimSumOf(c) == SetSum(RatedSet, [r \in RatedSet |-> item_sim_df.sim[<<c, r>>]])

\* the sum over the rated items of similarity * rating
WeightedOf(c) ==
    SetSum(RatedSet, [r \in RatedSet |->
                        item_sim_df.sim[<<c, r>>] * user_item.rows[call.username][r]])

\* the score the specification gives a candidate of a known user
ExpectedScore(c) ==
    IF RatedSet = {} \/ SimSumOf(c) = 0 THEN <<0, 1>>
    ELSE IF SimSumOf(c) * EpsDen + 1 > 0
         THEN <<WeightedOf(c) * EpsDen, SimSumOf(c) * EpsDen + 1>>
         ELSE <<-(WeightedOf(c) * EpsDen), -(SimSumOf(c) * EpsDen + 1)>>

\* the columns of the similarity table the user has not rated
UnratedLabels == Range(item_sim_df.labels) \ RatedSet

ColPos(c) == CHOOSE i \in 1..Len(item_sim_df.labels) : item_sim_df.labels[i] = c

CandPos(c) == CHOOSE i \in 1..Len(cand_df.rows) : cand_df.rows[i].id = c

CandRow(c) == cand_df.rows[CandPos(c)]

\* a sentiment value of the statistics table, a missing one counted as 0
StatsSentiment(c, col) ==
    IF c \in StatsIds /\ col \in product_stats.columns
    THEN LET v == product_stats.rows[CHOOSE i \in 1..Len(product_stats.rows) :
                                        product_stats.rows[i].id = c][col]
         IN  IF v = NaN THEN 0 ELSE v
    ELSE 0

\* 0.6 * recomm_score + 0.3 * pct_pos + 0.1 * mean_pos_prob of a candidate row
ExpectedBlend(r) ==
    <<6 * r.recomm_score[1]
        + (3 * StatsSentiment(r.id, "pct_pos") + StatsSentiment(r.id, "mean_pos_prob"))
          * r.recomm_score[2],
      10 * r.recomm_score[2]>>

ItemPathOk == IsTop20 /\ UserIsKnown /\ cand_df.error = "none"

(***************************************************************************)
(* C6.  Missing metadata is not an error.  On the item-based path a        *)
(* candidate without a row in the statistics table is in the candidate     *)
(* list with its computed score, a null name and avg_rating and            *)
(* n_ratings = 0; the re-ranker gives it pct_pos = mean_pos_prob = 0.0;    *)
(* it is in the final output whenever fewer than final_k surviving         *)
(* candidates have a blend at least as large as its own.  A fault of the   *)
(* call is never due to the missing row: it comes with a rated product     *)
(* outside the similarity table or a statistics row without n_ratings.     *)
(***************************************************************************)
C6_MissingMetadata ==
    /\ ItemPathOk =>
         /\ Cardinality(UnratedLabels) <= call.top_k => CandIds = UnratedLabels
         /\ \A i \in 1..Len(cand_df.rows) :
              LET r == cand_df.rows[i]
              IN  r.id \notin StatsIds =>
                    /\ RatEq(r.recomm_score, ExpectedScore(r.id))
                    /\ r.product_name = NaN /\ r.avg_rating = NaN /\ r.n_ratings = 0
    /\ (ItemPathOk /\ IsFinal) =>
         /\ \A i \in 1..Len(out.records) :
              LET o == out.records[i]
              IN  o.id \notin StatsIds =>
                    /\ o.pct_pos = 0 /\ o.mean_pos_prob = 0
                    /\ o.avg_rating = NaN /\ o.n_ratings = 0
                    /\ RatEq(o.blend, ExpectedBlend(CandRow(o.id)))
         /\ \A c \in CandIds \ StatsIds :
              Cardinality({x \in Survivors \ {c} :
                             ~RatLt(ExpectedBlend(CandRow(x)), ExpectedBlend(CandRow(c)))})
                  < call.final_k
              => c \in OutIds
    /\ (IsTop20 /\ UserIsKnown /\ cand_df.error # "none") =>
         \/ ~(RatedSet \subseteq Range(item_sim_df.labels))
         \/ /\ "n_ratings" \in product_stats.columns
            /\ \E i \in 1..Len(product_stats.rows) : product_stats.rows[i].n_ratings = NaN

\* a product without statistics is returned ahead of one that has them
C6_Witness ==
    /\ ItemPathOk /\ IsFinal
    /\ Len(out.records) >= 2
    /\ out.records[1].id \notin StatsIds
    /\ out.records[2].id \in StatsIds
    /\ out.records[1].blend[1] > 0

(***************************************************************************)
(* C7.  For a known user with a non-empty rated set, an unrated product    *)
(* whose similarities to the rated items sum to exactly zero scores 0.0;   *)
(* any other scores (sum of similarity * rating) / (similarity sum +       *)
(* epsilon).  A candidate with zero similarity to every rated item ranks   *)
(* after every candidate whose similarities to the rated items are         *)
(* non-negative and not all zero.                                          *)
(***************************************************************************)
ZeroSim(c) == \A r \in RatedSet : item_sim_df.sim[<<c, r>>] = 0

PositiveSim(c) ==
    /\ \A r \in RatedSet : item_sim_df.sim[<<c, r>>] >= 0
    /\ \E r \in RatedSet : item_sim_df.sim[<<c, r>>] > 0

C7_Score ==
    (ItemPathOk /\ RatedSet # {}) =>
        /\ \A i \in 1..Len(cand_df.rows) :
             LET r == cand_df.rows[i]
             IN  /\ SimSumOf(r.id) = 0 => r.recomm_score = <<0, 1>>
                 /\ SimSumOf(r.id) # 0 =>
                      /\ r.recomm_score[2] > 0
                      /\ r.recomm_score[1] * (SimSumOf(r.id) * EpsDen + 1)
                           = WeightedOf(r.id) * EpsDen * r.recomm_score[2]
        /\ \A z \in CandIds : \A p \in UnratedLabels :
             (ZeroSim(z) /\ PositiveSim(p)) =>
                 /\ CandRow(z).recomm_score = <<0, 1>>
                 /\ p \in CandIds
                 /\ CandPos(p) < CandPos(z)

\* similarities that cancel: the sum is zero, the weighted sum is not
C7_Witness ==
    /\ ItemPathOk /\ RatedSet # {}
    /\ \E i \in 1..Len(cand_df.rows) :
         /\ SimSumOf(cand_df.rows[i].id) = 0
         /\ WeightedOf(cand_df.rows[i].id) # 0
         /\ cand_df.rows[i].recomm_score = <<0, 1>>

(***************************************************************************)
(* C8.  For a known user get_top20_products returns the first top_k of the *)
(* unrated columns of the similarity table in non-increasing order of      *)
(* score, equal scores in column order; with an empty rated set every      *)
(* score is 0.0 and the output is the first top_k columns in column order. *)
(***************************************************************************)
C8_Ranking ==
    ItemPathOk =>
        LET n == Len(cand_df.rows)
        IN  /\ CandIds \subseteq UnratedLabels
            /\ Cardinality(CandIds) = n
            /\ n = Min(call.top_k, Cardinality(UnratedLabels))
            /\ \A i \in 1..n : RatEq(cand_df.rows[i].recomm_score,
                                     ExpectedScore(cand_df.rows[i].id))
            /\ \A i \in 1..(n - 1) :
                 LET a == cand_df.rows[i]
                     b == cand_df.rows[i + 1]
                 IN  /\ ~RatLt(a.recomm_score, b.recomm_score)
                     /\ RatEq(a.recomm_score, b.recomm_score) => ColPos(a.id) < ColPos(b.id)
            /\ \A e \in UnratedLabels \ CandIds :
                 LET last == cand_df.rows[n]
                 IN  \/ RatLt(ExpectedScore(e), last.recomm_score)
                     \/ /\ RatEq(ExpectedScore(e), last.recomm_score)
                        /\ ColPos(last.id) < ColPos(e)
            /\ RatedSet = {} =>
                 /\ \A i \in 1..n : cand_df.rows[i].recomm_score = <<0, 1>>
                 /\ \A i \in 1..n : cand_df.rows[i].id = item_sim_df.labels[i]

\* a tie among scored candidates of a user who rated something, cut by top_k
C8_Witness ==
    /\ ItemPathOk /\ RatedSet # {}
    /\ Len(cand_df.rows) = 1
    /\ Cardinality(UnratedLabels) = 2
    /\ cand_df.rows[1].recomm_score[1] > 0
    /\ \E e \in UnratedLabels \ CandIds :
         RatEq(ExpectedScore(e), cand_df.rows[1].recomm_score)

(***************************************************************************)
(* C9.  Every list returned by get_final_recommendations is in             *)
(* non-increasing order of blend, each blend being 0.6 * recomm_score +    *)
(* 0.3 * pct_pos + 0.1 * mean_pos_prob of that candidate (a missing        *)
(* sentiment counted as 0.0); of two records with equal blend the one      *)
(* with the higher avg_rating comes first.                                 *)
(***************************************************************************)
C9_BlendOrder ==
    (IsFinal /\ out.error = "none") =>
        /\ \A i \in 1..Len(out.records) :
             LET o == out.records[i]
             IN  /\ o.id \in CandIds
                 /\ RatEq(o.blend, ExpectedBlend(CandRow(o.id)))
                 /\ o.pct_pos = StatsSentiment(o.id, "pct_pos")
                 /\ o.mean_pos_prob = StatsSentiment(o.id, "mean_pos_prob")
        /\ \A i \in 1..Len(out.records) : \A j \in 1..Len(out.records) :
             i < j =>
                LET a == out.records[i]
                    b == out.records[j]
                IN  /\ ~RatLt(a.blend, b.blend)
                    /\ (RatEq(a.blend, b.blend) /\ a.avg_rating # NaN /\ b.avg_rating # NaN)
                         => a.avg_rating >= b.avg_rating

\* equal blends on the item-based path, the better rated product first
C9_Witness ==
    /\ IsFinal /\ UserIsKnown /\ out.error = "none"
    /\ Len(out.records) >= 2
    /\ RatEq(out.records[1].blend, out.records[2].blend)
    /\ out.records[1].avg_rating > out.records[2].avg_rating
    /\ out.records[1].avg_rating # NaN /\ out.records[2].avg_rating # NaN
    /\ out.records[1].id > out.records[2].id

(***************************************************************************)
(* C10.  On every path the candidate list of get_top20_products carries    *)
(* neither a pct_pos nor a mean_pos_prob column, so the overlap drop       *)
(* removes nothing.                                                        *)
(***************************************************************************)
C10_NoSentimentColumns ==
    (IsTop20 /\ cand_df.error = "none") =>
        /\ "pct_pos" \notin cand_df.columns
        /\ "mean_pos_prob" \notin cand_df.columns

(***************************************************************************)
(* C3.  No request changes the three artifact tables, and a call of        *)
(* get_final_recommendations with the arguments of the remembered first    *)
(* call returns the remembered outcome, whatever ran in between.           *)
(***************************************************************************)
SameArguments ==
    /\ seen.valid /\ IsFinal
    /\ call.username = seen.call.username
    /\ call.top_k = seen.call.top_k
    /\ call.final_k = seen.call.final_k

====
